---- MODULE Spec2Model ----
(***************************************************************************)
(* Model of cluster2.py: an interactive clustering demo.  Four widgets     *)
(* (algorithm and dataset drop-downs, sample-count and cluster-count       *)
(* sliders) each fire a handler that regenerates and/or re-clusters the    *)
(* module-level point set X and overwrites the columns of the plot's data  *)
(* source.                                                                 *)
(*                                                                         *)
(* The numerical library is outside the repository.  A point set is        *)
(* represented by its provenance (generator, size, random draw, whether it *)
(* has been standardized).  A label array or a color array has one entry   *)
(* per point; it is kept as its length n and a repeating pattern, entry k  *)
(* of the array being pattern[((k - 1) % Len(pattern)) + 1].               *)
(***************************************************************************)
EXTENDS Integers, Sequences, FiniteSets, TLC

VARIABLES
    algorithm_select,   \* algorithm_select.value
    dataset_select,     \* dataset_select.value
    samples_slider,     \* int(samples_slider.value)
    clusters_slider,    \* int(clusters_slider.value)
    X,                  \* module-level X (the session PointSet)
    y,                  \* module-level y (ground-truth labels or None)
    source,             \* source.data: columns x, y, colors
    title,              \* plot.title
    fired,              \* history: the kinds of UI event handled so far
    running,            \* handler invocations in flight (overlapping host only)
    overlapped,         \* history: the latest invocation began while another was in flight
    begun,              \* history: number of invocations begun (overlapping host only)
    call                \* last direct call of a pure function and its result

vars == <<algorithm_select, dataset_select, samples_slider, clusters_slider,
          X, y, source, title, fired, running, overlapped, begun, call>>

-----------------------------------------------------------------------------
(* Bounds of the exploration *)

\* the sample-count slider is moved at most this many steps above its default
MaxSampleDelta == 1
\* the cluster-count slider is moved within 2..MaxClusters
MaxClusters == 3
\* number of distinguishable outcomes of one draw from the random generator
MaxDraw == 1
\* length of the label arrays handed directly to the recolor step
MaxLabelsLen == 2
\* number of handler invocations the overlapping host lets be in flight
MaxInFlight == 2
\* number of handler invocations the overlapping host begins in all
MaxRaceEvents == 2

-----------------------------------------------------------------------------
(* Program constants *)

\* Python None as a plot title
None == "None"

\* Python None where an array is expected
NoArray == [none |-> TRUE]

n_samples == 1500

Spectral6 == <<"#3288bd", "#99d594", "#e6f598", "#fee08b", "#fc8d59", "#d53e4f">>

PaletteCopies == 20

\* slip: the palette replicated twice instead of 20 times
spectral_short ==
    [k \in 1..(Len(Spectral6) * 2) |-> Spectral6[((k - 1) % Len(Spectral6)) + 1]]

\* np.hstack([Spectral6] * 20)
spectral ==
    [k \in 1..(Len(Spectral6) * PaletteCopies) |-> Spectral6[((k - 1) % Len(Spectral6)) + 1]]

clustering_algorithms ==
    <<"MiniBatchKMeans", "AffinityPropagation", "MeanShift", "SpectralClustering",
      "Ward", "AgglomerativeClustering", "DBSCAN", "Birch">>

datasets_names == <<"Noisy Circles", "Noisy Moons", "Blobs", "No Structure">>

samples_start == 1000
samples_end == 3000
samples_step == 100
samples_default == 1500

clusters_start == 2
clusters_end == 10
clusters_default == 2

Range(s) == {s[k] : k \in 1..Len(s)}

Draws == 0..(MaxDraw - 1)

\* values the user can drag the sample-count slider to
SampleChoices ==
    {v \in samples_start..samples_end :
        /\ (v - samples_start) % samples_step = 0
        /\ v >= samples_default
        /\ v - samples_default <= MaxSampleDelta * samples_step}

\* values the user can drag the cluster-count slider to
ClusterChoices == {k \in clusters_start..clusters_end : k <= MaxClusters}

-----------------------------------------------------------------------------
(* Arrays *)

\* arr[i] with Python/numpy index semantics: 0-based, negative counts from the end
NumpyIndex(arr, i) ==
    IF i >= 0 /\ i < Len(arr) THEN arr[i + 1]
    ELSE IF i < 0 /\ i >= 0 - Len(arr) THEN arr[Len(arr) + i + 1]
    ELSE "IndexError"

\* entry k (1-based) of a label or color array
At(arr, k) == arr.pattern[((k - 1) % Len(arr.pattern)) + 1]

\* len() of a label or color array
ArrayLen(arr) == arr.n

\* colors = [spectral[i] for i in y_pred]: one color per label, entry by entry
Recolor(y_pred) ==
    [n |-> ArrayLen(y_pred),
     pattern |-> [k \in 1..Len(y_pred.pattern) |-> NumpyIndex(spectral, y_pred.pattern[k])]]

\* X[:, c]: one coordinate of every point
Column(pts, c) == [of |-> pts, col |-> c]

\* len() of a column of coordinates
ColumnLen(column) == column.of.n

\* StandardScaler().fit_transform(X): idempotent up to rounding
StandardScale(pts) == [pts EXCEPT !.scaled = TRUE]

-----------------------------------------------------------------------------
(* get_dataset *)

\* ground truth of make_circles / make_moons: half the points in each class
TwoClassLabels(n, d) ==
    [n |-> n, pattern |-> [k \in 1..4 |-> IF ((k + d) % 4) < 2 THEN 0 ELSE 1]]

\* ground truth of make_blobs: three centers, points dealt in turn
BlobLabels(n) == [n |-> n, pattern |-> <<0, 1, 2>>]

\* slip: the 'Blobs' branch missing, so that name falls through to the else
get_dataset_without_blobs(dataset, n, d) ==
    IF dataset = "Noisy Circles"
    THEN [X |-> [gen |-> "make_circles", n |-> n, draw |-> d, scaled |-> FALSE],
          y |-> TwoClassLabels(n, d)]
    ELSE IF dataset = "Noisy Moons"
    THEN [X |-> [gen |-> "make_moons", n |-> n, draw |-> d, scaled |-> FALSE],
          y |-> TwoClassLabels(n, d)]
    ELSE [X |-> [gen |-> "rand", n |-> n, draw |-> d, scaled |-> FALSE],
          y |-> NoArray]

get_dataset(dataset, n, d) ==
    IF dataset = "Noisy Circles"
    THEN [X |-> [gen |-> "make_circles", n |-> n, draw |-> d, scaled |-> FALSE],
          y |-> TwoClassLabels(n, d)]
    ELSE IF dataset = "Noisy Moons"
    THEN [X |-> [gen |-> "make_moons", n |-> n, draw |-> d, scaled |-> FALSE],
          y |-> TwoClassLabels(n, d)]
    ELSE IF dataset = "Blobs"
    THEN [X |-> [gen |-> "make_blobs", n |-> n, draw |-> 8, scaled |-> FALSE],
          y |-> BlobLabels(n)]
    ELSE [X |-> [gen |-> "rand", n |-> n, draw |-> d, scaled |-> FALSE],
          y |-> NoArray]

-----------------------------------------------------------------------------
(* clustering *)

\* the constructor arguments of an estimator that is given no n_clusters
NoClusterCount == {}

\* the cluster count an estimator was constructed with
ClusterCount(model) == CHOOSE k \in model.n_clusters : TRUE

\* the estimator the if/elif chain constructs
Estimator(algorithm, n_clusters) ==
    IF algorithm = "MiniBatchKMeans"
    THEN [cls |-> "MiniBatchKMeans", n_clusters |-> {n_clusters}, opts |-> ""]
    ELSE IF algorithm = "AffinityPropagation"
    THEN [cls |-> "AffinityPropagation", n_clusters |-> NoClusterCount,
          opts |-> "damping=.9,preference=-200"]
    ELSE IF algorithm = "MeanShift"
    THEN [cls |-> "MeanShift", n_clusters |-> NoClusterCount,
          opts |-> "bandwidth=bandwidth,bin_seeding=True"]
    ELSE IF algorithm = "SpectralClustering"
    THEN [cls |-> "SpectralClustering", n_clusters |-> {n_clusters},
          opts |-> "eigen_solver=arpack,affinity=nearest_neighbors"]
    ELSE IF algorithm = "Ward"
    THEN [cls |-> "AgglomerativeClustering", n_clusters |-> {n_clusters},
          opts |-> "linkage=ward,connectivity=connectivity"]
    ELSE IF algorithm = "AgglomerativeClustering"
    THEN [cls |-> "AgglomerativeClustering", n_clusters |-> {n_clusters},
          opts |-> "linkage=average,affinity=cityblock,connectivity=connectivity"]
    ELSE IF algorithm = "Birch"
    THEN [cls |-> "Birch", n_clusters |-> {n_clusters}, opts |-> ""]
    ELSE IF algorithm = "DBSCAN"
    THEN [cls |-> "DBSCAN", n_clusters |-> NoClusterCount, opts |-> "eps=.2"]
    ELSE [cls |-> "MiniBatchKMeans", n_clusters |-> {n_clusters}, opts |-> ""]

\* what the else branch prints
Notice(algorithm) ==
    IF algorithm \in Range(clustering_algorithms)
    THEN ""
    ELSE "No Algorithm selected. Default is MiniBatchKMeans"

\* estimators whose fit draws from the global random generator
Randomized(model) == model.cls \in {"MiniBatchKMeans", "SpectralClustering"}

\* a number standing for the geometry of a point set
Shape(pts) ==
    pts.draw + (CASE pts.gen = "make_circles" -> 0
                  [] pts.gen = "make_moons" -> 1
                  [] pts.gen = "make_blobs" -> 2
                  [] OTHER -> 3)

\* a number standing for the estimator's linkage/affinity options
Variant(model) == IF model.opts = "linkage=ward,connectivity=connectivity" THEN 1 ELSE 0

\* model.fit(X) followed by labels_ / predict(X): one label per point.
\* Estimators given a cluster count label with 0..n_clusters-1; DBSCAN labels
\* noise -1; the others find their own number of clusters.  r is the draw of
\* the random generator, used by the randomized estimators only.
Fit(model, pts, r) ==
    IF model.cls = "DBSCAN"
    THEN [n |-> pts.n, pattern |-> [k \in 1..3 |-> ((k + Shape(pts)) % 3) - 1]]
    ELSE IF model.n_clusters = NoClusterCount
    THEN [n |-> pts.n,
          pattern |-> [k \in 1..4 |->
              (k + Shape(pts) + (IF model.cls = "MeanShift" THEN 1 ELSE 0)) % 4]]
    ELSE [n |-> pts.n,
          pattern |-> [k \in 1..ClusterCount(model) |->
              (k + Shape(pts) + Variant(model) + (IF Randomized(model) THEN r ELSE 0))
                  % ClusterCount(model)]]

\* slip: the else branch constructs MiniBatchKMeans() with the library's
\* default of 8 clusters
clustering_default_count(pts, algorithm, n_clusters, r) ==
    LET scaled == StandardScale(pts)
        model == IF algorithm \in Range(clustering_algorithms)
                 THEN Estimator(algorithm, n_clusters)
                 ELSE Estimator("MiniBatchKMeans", 8)
    IN  [X |-> scaled, y_pred |-> Fit(model, scaled, r), printed |-> Notice(algorithm)]

clustering(pts, algorithm, n_clusters, r) ==
    LET scaled == StandardScale(pts)
        model == Estimator(algorithm, n_clusters)
    IN  [X |-> scaled, y_pred |-> Fit(model, scaled, r), printed |-> Notice(algorithm)]

-----------------------------------------------------------------------------
(* Module set-up *)

NoCall == [fn |-> "none"]

\* variant: the start-up display clustered with the default algorithm
InitClustered ==
    LET made == get_dataset("Noisy Circles", n_samples, 0)
        res == clustering(made.X, "MiniBatchKMeans", clusters_default, 0)
    IN  /\ algorithm_select = "MiniBatchKMeans"
        /\ dataset_select = "Noisy Circles"
        /\ samples_slider = samples_default
        /\ clusters_slider = clusters_default
        /\ X = res.X
        /\ y = made.y
        /\ source = [x |-> Column(res.X, 0), y |-> Column(res.X, 1),
                     colors |-> Recolor(res.y_pred)]
        /\ title = None
        /\ fired = {}
        /\ running = <<>>
        /\ overlapped = FALSE
        /\ begun = 0
        /\ call = NoCall

Init ==
    LET made == get_dataset("Noisy Circles", n_samples, 0)
        X0 == StandardScale(made.X)
    IN  /\ algorithm_select = "MiniBatchKMeans"
        /\ dataset_select = "Noisy Circles"
        /\ samples_slider = samples_default
        /\ clusters_slider = clusters_default
        /\ X = X0
        /\ y = made.y
        /\ source = [x |-> Column(X0, 0), y |-> Column(X0, 1), colors |-> Recolor(made.y)]
        /\ title = None
        /\ fired = {}
        /\ running = <<>>
        /\ overlapped = FALSE
        /\ begun = 0
        /\ call = NoCall

-----------------------------------------------------------------------------
(* Handlers, each run to completion *)

update_algorithm(r) ==
    LET algorithm == algorithm_select'
        n_clusters == clusters_slider
        res == clustering(X, algorithm, n_clusters, r)
    IN  /\ X' = res.X
        /\ y' = y
        /\ source' = [colors |-> Recolor(res.y_pred),
                      x |-> Column(res.X, 0),
                      y |-> Column(res.X, 1)]
        /\ title' = algorithm

\* slip: the dataset handler sets the plot title too
update_dataset_titled(d, r) ==
    LET dataset == dataset_select'
        made == get_dataset(dataset, samples_slider, d)
        res == clustering(made.X, algorithm_select, clusters_slider, r)
    IN  /\ X' = res.X
        /\ y' = made.y
        /\ source' = [x |-> Column(res.X, 0),
                      y |-> Column(res.X, 1),
                      colors |-> Recolor(res.y_pred)]
        /\ title' = dataset

update_dataset(d, r) ==
    LET dataset == dataset_select'
        algorithm == algorithm_select
        n_clusters == clusters_slider
        n == samples_slider
        made == get_dataset(dataset, n, d)
        res == clustering(made.X, algorithm, n_clusters, r)
    IN  /\ X' = res.X
        /\ y' = made.y
        /\ source' = [x |-> Column(res.X, 0),
                      y |-> Column(res.X, 1),
                      colors |-> Recolor(res.y_pred)]
        /\ title' = title

\* slip: the sample-count handler leaves the colors column as it was
update_samples_keeps_colors(d, r) ==
    LET made == get_dataset(dataset_select, samples_slider', d)
        res == clustering(made.X, algorithm_select, clusters_slider, r)
    IN  /\ X' = X
        /\ y' = y
        /\ source' = [x |-> Column(res.X, 0),
                      y |-> Column(res.X, 1),
                      colors |-> source.colors]
        /\ title' = title

\* X and y are local here: there is no global statement
update_samples(d, r) ==
    LET dataset == dataset_select
        algorithm == algorithm_select
        n_clusters == clusters_slider
        n == samples_slider'
        made == get_dataset(dataset, n, d)
        res == clustering(made.X, algorithm, n_clusters, r)
    IN  /\ X' = X
        /\ y' = y
        /\ source' = [x |-> Column(res.X, 0),
                      y |-> Column(res.X, 1),
                      colors |-> Recolor(res.y_pred)]
        /\ title' = title

update_clusters(r) ==
    LET algorithm == algorithm_select
        n_clusters == clusters_slider'
        res == clustering(X, algorithm, n_clusters, r)
    IN  /\ X' = res.X
        /\ y' = y
        /\ source' = [x |-> Column(res.X, 0),
                      y |-> Column(res.X, 1),
                      colors |-> Recolor(res.y_pred)]
        /\ title' = title

\* algorithm_select.on_change('value', update_algorithm)
AlgorithmChange ==
    \E new \in Range(clustering_algorithms) \ {algorithm_select}, r \in Draws :
        /\ algorithm_select' = new
        /\ update_algorithm(r)
        /\ fired' = fired \cup {"algorithm"}
        /\ UNCHANGED <<dataset_select, samples_slider, clusters_slider,
                       running, overlapped, begun, call>>

\* dataset_select.on_change('value', update_dataset)
DatasetChange ==
    \E new \in Range(datasets_names) \ {dataset_select}, d \in Draws, r \in Draws :
        /\ dataset_select' = new
        /\ update_dataset(d, r)
        /\ fired' = fired \cup {"dataset"}
        /\ UNCHANGED <<algorithm_select, samples_slider, clusters_slider,
                       running, overlapped, begun, call>>

\* samples_slider.on_change('value', update_samples)
SamplesChange ==
    \E new \in SampleChoices \ {samples_slider}, d \in Draws, r \in Draws :
        /\ samples_slider' = new
        /\ update_samples(d, r)
        /\ fired' = fired \cup {"samples"}
        /\ UNCHANGED <<algorithm_select, dataset_select, clusters_slider,
                       running, overlapped, begun, call>>

\* clusters_slider.on_change('value', update_clusters)
ClustersChange ==
    \E new \in ClusterChoices \ {clusters_slider}, r \in Draws :
        /\ clusters_slider' = new
        /\ update_clusters(r)
        /\ fired' = fired \cup {"clusters"}
        /\ UNCHANGED <<algorithm_select, dataset_select, samples_slider,
                       running, overlapped, begun, call>>

Next ==
    \/ AlgorithmChange
    \/ DatasetChange
    \/ SamplesChange
    \/ ClustersChange

Spec == Init /\ [][Next]_vars

-----------------------------------------------------------------------------
(* The pure functions called directly, on inputs drawn from bounded sets *)

\* names no branch of the if/elif chains tests for
UnknownNames == {"KMeans", ""}

\* the labels the palette covers: the noise label -1 and 0..119
Labels == (0 - 1)..(Len(Spectral6) * PaletteCopies - 1)

\* label arrays of up to MaxLabelsLen entries: every first label of Labels,
\* the following entries a fixed stride further on (wrapping round from the
\* highest label to the lowest)
LabelArrays ==
    {[n |-> n,
      pattern |-> [k \in 1..n |-> ((l + 1 + (k - 1) * s) % Cardinality(Labels)) - 1]] :
        l \in Labels, n \in 1..MaxLabelsLen, s \in 0..MaxLabelsLen}

\* point sets as get_dataset returns them, raw or already standardized
PointSets ==
    {get_dataset(ds, n, d).X : ds \in Range(datasets_names), n \in SampleChoices, d \in Draws}
    \cup {StandardScale(get_dataset(ds, n, d).X) :
             ds \in Range(datasets_names), n \in SampleChoices, d \in Draws}

CallGetDataset ==
    /\ call = NoCall
    /\ \E dataset \in Range(datasets_names) \cup UnknownNames, n \in SampleChoices, d \in Draws :
          call' = [fn |-> "get_dataset", dataset |-> dataset, n |-> n, d |-> d,
                   result |-> get_dataset(dataset, n, d)]
    /\ UNCHANGED <<algorithm_select, dataset_select, samples_slider, clusters_slider,
                   X, y, source, title, fired, running, overlapped, begun>>

CallClustering ==
    /\ call = NoCall
    /\ \E pts \in PointSets, algorithm \in Range(clustering_algorithms) \cup UnknownNames,
          n_clusters \in ClusterChoices, r \in Draws :
          call' = [fn |-> "clustering", pts |-> pts, algorithm |-> algorithm,
                   n_clusters |-> n_clusters, r |-> r,
                   result |-> clustering(pts, algorithm, n_clusters, r)]
    /\ UNCHANGED <<algorithm_select, dataset_select, samples_slider, clusters_slider,
                   X, y, source, title, fired, running, overlapped, begun>>

CallRecolor ==
    /\ call = NoCall
    /\ \E labels \in LabelArrays :
          call' = [fn |-> "recolor", labels |-> labels, result |-> Recolor(labels)]
    /\ UNCHANGED <<algorithm_select, dataset_select, samples_slider, clusters_slider,
                   X, y, source, title, fired, running, overlapped, begun>>

Return ==
    /\ call # NoCall
    /\ call' = NoCall
    /\ UNCHANGED <<algorithm_select, dataset_select, samples_slider, clusters_slider,
                   X, y, source, title, fired, running, overlapped, begun>>

NextCalls ==
    \/ CallGetDataset
    \/ CallClustering
    \/ CallRecolor
    \/ Return

SpecCalls == Init /\ [][NextCalls]_vars

-----------------------------------------------------------------------------
(* A host that lets handlers overlap: every column write is a step of its own *)

\* slip: the handlers other than update_algorithm do not assign colors
WritesWithoutColors(handler) ==
    IF handler = "update_algorithm"
    THEN <<"colors", "x", "y", "title">>
    ELSE <<"x", "y">>

\* the order in which a handler assigns the columns of source.data (and the title)
Writes(handler) ==
    IF handler = "update_algorithm"
    THEN <<"colors", "x", "y", "title">>
    ELSE <<"x", "y", "colors">>

\* the locals of a handler that has computed its colors and is about to write:
\* colors in all four, algorithm where it is written to the title, and X in
\* update_samples alone (in the other handlers X is the module-level X, read
\* again at each write)
Invocation(handler, pts, colors, algorithm) ==
    [handler |-> handler, todo |-> Writes(handler), colors |-> colors,
     pts |-> IF handler = "update_samples" THEN pts ELSE [none |-> TRUE],
     algorithm |-> IF handler = "update_algorithm" THEN algorithm ELSE None]

BeginAlgorithm ==
    /\ Len(running) < MaxInFlight
    /\ begun < MaxRaceEvents
    /\ begun' = begun + 1
    /\ \E new \in Range(clustering_algorithms) \ {algorithm_select}, r \in Draws :
          LET res == clustering(X, new, clusters_slider, r)
          IN  /\ algorithm_select' = new
              /\ X' = res.X
              /\ running' = Append(running,
                      Invocation("update_algorithm", res.X, Recolor(res.y_pred), new))
    /\ overlapped' = (running # <<>>)
    /\ fired' = fired \cup {"algorithm"}
    /\ UNCHANGED <<dataset_select, samples_slider, clusters_slider, y, source, title, call>>

BeginDataset ==
    /\ Len(running) < MaxInFlight
    /\ begun < MaxRaceEvents
    /\ begun' = begun + 1
    /\ \E new \in Range(datasets_names) \ {dataset_select}, d \in Draws, r \in Draws :
          LET made == get_dataset(new, samples_slider, d)
              res == clustering(made.X, algorithm_select, clusters_slider, r)
          IN  /\ dataset_select' = new
              /\ X' = res.X
              /\ y' = made.y
              /\ running' = Append(running,
                      Invocation("update_dataset", res.X, Recolor(res.y_pred), algorithm_select))
    /\ overlapped' = (running # <<>>)
    /\ fired' = fired \cup {"dataset"}
    /\ UNCHANGED <<algorithm_select, samples_slider, clusters_slider, source, title, call>>

BeginSamples ==
    /\ Len(running) < MaxInFlight
    /\ begun < MaxRaceEvents
    /\ begun' = begun + 1
    /\ \E new \in SampleChoices \ {samples_slider}, d \in Draws, r \in Draws :
          LET made == get_dataset(dataset_select, new, d)
              res == clustering(made.X, algorithm_select, clusters_slider, r)
          IN  /\ samples_slider' = new
              /\ running' = Append(running,
                      Invocation("update_samples", res.X, Recolor(res.y_pred), algorithm_select))
    /\ overlapped' = (running # <<>>)
    /\ fired' = fired \cup {"samples"}
    /\ UNCHANGED <<algorithm_select, dataset_select, clusters_slider, X, y, source, title, call>>

BeginClusters ==
    /\ Len(running) < MaxInFlight
    /\ begun < MaxRaceEvents
    /\ begun' = begun + 1
    /\ \E new \in ClusterChoices \ {clusters_slider}, r \in Draws :
          LET res == clustering(X, algorithm_select, new, r)
          IN  /\ clusters_slider' = new
              /\ X' = res.X
              /\ running' = Append(running,
                      Invocation("update_clusters", res.X, Recolor(res.y_pred), algorithm_select))
    /\ overlapped' = (running # <<>>)
    /\ fired' = fired \cup {"clusters"}
    /\ UNCHANGED <<algorithm_select, dataset_select, samples_slider, y, source, title, call>>

\* running without its i-th invocation
Without(seq, i) == [k \in 1..(Len(seq) - 1) |-> IF k < i THEN seq[k] ELSE seq[k + 1]]

\* the next assignment of invocation i; the handler returns after its last one
Write(i) ==
    LET inv == running[i]
        col == Head(inv.todo)
        pts == IF inv.handler = "update_samples" THEN inv.pts ELSE X
    IN  /\ source' = IF col = "x" THEN [source EXCEPT !.x = Column(pts, 0)]
                     ELSE IF col = "y" THEN [source EXCEPT !.y = Column(pts, 1)]
                     ELSE IF col = "colors" THEN [source EXCEPT !.colors = inv.colors]
                     ELSE source
        /\ title' = IF col = "title" THEN inv.algorithm ELSE title
        /\ running' = IF Len(inv.todo) = 1
                      THEN Without(running, i)
                      ELSE [running EXCEPT ![i].todo = Tail(inv.todo)]
        /\ UNCHANGED <<algorithm_select, dataset_select, samples_slider, clusters_slider,
                       X, y, fired, overlapped, begun, call>>

WriteStep == \E i \in 1..Len(running) : Write(i)

NextRace ==
    \/ BeginAlgorithm
    \/ BeginDataset
    \/ BeginSamples
    \/ BeginClusters
    \/ WriteStep

SpecRace == Init /\ [][NextRace]_vars

-----------------------------------------------------------------------------
(* Properties *)

AllEvents == {"algorithm", "dataset", "samples", "clusters"}

\* two label or color arrays with the same entries
SameArray(a, b) ==
    /\ ArrayLen(a) = ArrayLen(b)
    /\ \A k \in 1..(Len(a.pattern) * Len(b.pattern)) : k <= ArrayLen(a) => At(a, k) = At(b, k)

\* C1: with the handlers run one at a time, the three columns of the data
\* source have equal length after every handler: one color per displayed point.
ColumnsAligned ==
    /\ ArrayLen(source.colors) = ColumnLen(source.x)
    /\ ColumnLen(source.x) = ColumnLen(source.y)

\* C1 witness: all four kinds of event have been handled, the sample count changed
AllHandlersRan ==
    /\ fired = AllEvents
    /\ samples_slider # samples_default
    /\ ArrayLen(source.colors) = samples_slider

\* C2 (as claimed): the number of points displayed equals the current value of
\* the sample-count slider after any sequence of events.
PointsMatchSlider == ColumnLen(source.x) = samples_slider

\* C3 (as claimed): when a handler completes, the module-level X is the
\* PointSet whose coordinates are in the x and y columns.
SessionIsDisplayed ==
    /\ source.x = Column(X, 0)
    /\ source.y = Column(X, 1)

\* C4 (as claimed): with DBSCAN selected, a cluster-count change leaves the
\* displayed colors as they were.
DBSCANIgnoresClusterCount ==
    [][(algorithm_select = "DBSCAN" /\ clusters_slider' # clusters_slider)
          => source'.colors = source.colors]_vars

\* C5: for a name that is none of the eight, clustering prints the notice and
\* returns what clustering returns for 'MiniBatchKMeans' on the same PointSet
\* with the same cluster count.
UnknownNameIsMiniBatchKMeans ==
    (call.fn = "clustering" /\ call.algorithm \notin Range(clustering_algorithms)) =>
        LET ref == clustering(call.pts, "MiniBatchKMeans", call.n_clusters, call.r)
        IN  /\ call.result.X = ref.X
            /\ call.result.y_pred = ref.y_pred
            /\ call.result.printed = "No Algorithm selected. Default is MiniBatchKMeans"
            /\ ref.printed = ""

\* C5 witness: clustering called with an unknown name and 3 clusters
UnknownNameCalled ==
    /\ call.fn = "clustering"
    /\ call.algorithm = "KMeans"
    /\ call.n_clusters = 3
    /\ ArrayLen(call.result.y_pred) = call.pts.n
    /\ \E k \in 1..3 : At(call.result.y_pred, k) = 2

\* C6: the title is unset until the first algorithm change and from then on
\* equals the algorithm drop-down's value: an algorithm change sets it, the
\* other three handlers leave it alone.
TitleTracksAlgorithm ==
    /\ [](title = IF "algorithm" \in fired THEN algorithm_select ELSE None)
    /\ [][IF algorithm_select' # algorithm_select
          THEN title' = algorithm_select'
          ELSE title' = title]_vars

\* C6 witness: an algorithm change followed by the other three kinds of event
TitleKeptByOtherHandlers ==
    /\ fired = AllEvents
    /\ algorithm_select = "DBSCAN"
    /\ title = "DBSCAN"
    /\ dataset_select = "Blobs"

\* C7: for labels in -1..119 the recolor step returns as many colors as
\* labels, each one of the 6 base colors, a label l >= 0 getting base color
\* number l mod 6.
RecolorWithinPalette ==
    call.fn = "recolor" =>
        /\ ArrayLen(call.result) = ArrayLen(call.labels)
        /\ \A k \in 1..ArrayLen(call.labels) :
              /\ At(call.result, k) \in Range(Spectral6)
              /\ At(call.labels, k) >= 0 =>
                    At(call.result, k) = Spectral6[(At(call.labels, k) % 6) + 1]

\* C7 witness: the highest label and the noise label recolored in one array
RecolorNoiseAndLast ==
    /\ call.fn = "recolor"
    /\ call.labels = [n |-> 2, pattern |-> <<119, 0 - 1>>]
    /\ call.result = [n |-> 2, pattern |-> <<Spectral6[6], Spectral6[6]>>]

\* C8: get_dataset returns n points for every name, ground-truth labels of
\* length n for 'Noisy Circles', 'Noisy Moons' and 'Blobs', and None for any
\* other name, which it treats as 'No Structure'.
DatasetSizes ==
    call.fn = "get_dataset" =>
        /\ call.result.X.n = call.n
        /\ IF call.dataset \in {"Noisy Circles", "Noisy Moons", "Blobs"}
           THEN /\ call.result.y # NoArray
                /\ ArrayLen(call.result.y) = call.n
           ELSE /\ call.result.y = NoArray
                /\ call.result = get_dataset("No Structure", call.n, call.d)

\* C8 witness: 'Blobs' generated with its three-class ground truth
BlobsGenerated ==
    /\ call.fn = "get_dataset"
    /\ call.dataset = "Blobs"
    /\ call.result.X.gen = "make_blobs"
    /\ ArrayLen(call.result.y) = call.n
    /\ At(call.result.y, 3) = 2

\* the colors an algorithm change re-selecting MiniBatchKMeans would display
DefaultClusteringDisplayed ==
    \E r \in Draws :
        SameArray(source.colors,
                  Recolor(clustering(X, "MiniBatchKMeans", clusters_default, r).y_pred))

\* C9 (as claimed): before any event the display is the one an algorithm
\* change re-selecting MiniBatchKMeans would show: the colors of its labels on
\* the default dataset, under its name as the title.
InitialDisplayIsClustered ==
    fired = {} => (DefaultClusteringDisplayed /\ title = "MiniBatchKMeans")

\* C9 (amended): before any event the display is the default dataset colored
\* by its ground-truth labels: 1500 standardized Noisy Circles points, the
\* recoloring of the module-level y, no title; the default algorithm is the
\* drop-down's value only.
InitialDisplayIsGroundTruth ==
    fired = {} =>
        /\ algorithm_select = "MiniBatchKMeans"
        /\ dataset_select = "Noisy Circles"
        /\ X = StandardScale(get_dataset("Noisy Circles", samples_default, 0).X)
        /\ y = get_dataset("Noisy Circles", samples_default, 0).y
        /\ source.x = Column(X, 0)
        /\ source.y = Column(X, 1)
        /\ source.colors = Recolor(y)
        /\ title = None

\* C9 witness: the start-up state, 1500 points in two ground-truth classes
StartUpDisplay ==
    /\ fired = {}
    /\ ArrayLen(source.colors) = 1500
    /\ Range(source.colors.pattern) = {Spectral6[1], Spectral6[2]}
    /\ samples_slider = 1500
    /\ clusters_slider = 2

\* C10: on the overlapping host, once nothing is in flight and the latest
\* handler ran alone from its start, the columns have equal length; a length
\* mismatch at rest needs handlers to have overlapped.
SerialHandlersAligned ==
    (running = <<>> /\ ~overlapped) =>
        /\ ArrayLen(source.colors) = ColumnLen(source.x)
        /\ ColumnLen(source.x) = ColumnLen(source.y)

\* C10 witness: a sample-count change and an algorithm change overlapped, both
\* have returned, and the colors column is longer or shorter than x and y
RaceMisaligned ==
    /\ running = <<>>
    /\ overlapped
    /\ begun = 2
    /\ fired = {"samples", "algorithm"}
    /\ ColumnLen(source.x) = ColumnLen(source.y)
    /\ ArrayLen(source.colors) # ColumnLen(source.x)

====
